---- MODULE Spec2Model ----
(***************************************************************************)
(* A model of the reproducibility-snapshot machinery of hal                *)
(* (src/hal/repro.py) and of the tracked-access mapping it reads           *)
(* (src/hal/config.py, MemoryDict).                                        *)
(*                                                                         *)
(* Python values are modelled structurally: a dict is a function, a str    *)
(* that the code splits or joins is a sequence of chunks, a dotted module  *)
(* name is the sequence of its components, a zip file is a sequence of     *)
(* cells written at file offsets.                                          *)
(***************************************************************************)
EXTENDS Integers, Sequences, FiniteSets, TLC

VARIABLES
    made,           \* a MemoryDict object exists (cfg.paths has been constructed)
    paths,          \* cfg.paths: the dict contents of the MemoryDict
    used_keys,      \* cfg.paths._used_keys
    mdOp,           \* the last MemoryDict operation and how it ended
    phase,          \* the interpreter: "running", "shutdown", "exited"
    globals_,       \* the calling script's module namespace
    sys_excepthook, \* sys.excepthook: "default", or "hal" (repro.excepthook)
    EXCEPTION,      \* repro.EXCEPTION: "None" or the recorded exception
    atexit_,        \* the callbacks registered with atexit, in registration order
    calls,          \* how many times reproduce() has been called
    runs,           \* how many times _reproduce has been entered
    fr,             \* the frame of the running _reproduce (its position and locals)
    rprFile,        \* the bytes of output/_rpr.zip, as cells
    dsFile,         \* the entries of output/<stem>_data_sources.zip
    ev,             \* what the last step showed to the outside (warning, call, raise)
    arg,            \* the input of a function applied on its own
    ret             \* its result

vars == <<made, paths, used_keys, mdOp, phase, globals_, sys_excepthook,
          EXCEPTION, atexit_, calls, runs, fr, rprFile, dsFile, ev, arg, ret>>

mdVars == <<made, paths, used_keys, mdOp>>
procVars == <<phase, globals_, sys_excepthook, EXCEPTION, atexit_, calls, runs>>
runVars == <<fr, rprFile, dsFile, ev>>
fnVars == <<arg, ret>>

(***************************************************************************)
(* Bounds of the model.                                                    *)
(***************************************************************************)
MaxCalls == 2          \* calls of reproduce() by one script
MaxDirEntries == 5     \* entries (files and subdirectories) under a data directory
MaxNamespace == 2      \* values bound in a namespace given to the inventory
MaxErrCells == 4       \* file cells a long traceback in error.txt takes

(***************************************************************************)
(* Python dicts.                                                           *)
(***************************************************************************)
EmptyDict == [k \in {} |-> ""]

\* d1 | d2: the keys of both, the right operand's value where both have one.
DictMerge(d1, d2) ==
    [k \in (DOMAIN d1) \cup (DOMAIN d2) |-> IF k \in DOMAIN d2 THEN d2[k] ELSE d1[k]]

\* every dict with keys among K and values among V
Dicts(K, V) == UNION {[S -> V] : S \in SUBSET K}

(***************************************************************************)
(* MemoryDict (src/hal/config.py).                                         *)
(***************************************************************************)
RESERVED_KEYS == {"_root_data"}

PathKeys == {"_root_data", "_output", "raw"}
PathVals == {"/mnt/a", "/mnt/b"}

NoOp == [op |-> "none", keys |-> {}, res |-> "ok"]

\* _check_key: TRUE when it raises KeyError
CheckKeyRaisesNever(key) == FALSE
_check_key(key) == key \in RESERVED_KEYS

\* the `reserved := RESERVED_KEYS & data.keys()` test of __init__ and update
ReservedIn(data) == RESERVED_KEYS \cap (DOMAIN data)

\* MemoryDict(initial_data); `res` is how the call ends
MemoryDict__init__(initial_data, res) ==
    IF ReservedIn(initial_data) # {}
    THEN /\ res = "KeyError"
         /\ UNCHANGED <<made, paths, used_keys>>
    ELSE /\ res = "ok"
         /\ made' = TRUE
         /\ paths' = initial_data
         /\ used_keys' = {}

\* d[key] = value
MemoryDict__setitem__(key, value, res) ==
    /\ made
    /\ IF _check_key(key)
       THEN /\ res = "KeyError"
            /\ UNCHANGED <<made, paths, used_keys>>
       ELSE /\ res = "ok"
            /\ paths' = DictMerge(paths, [k \in {key} |-> value])
            /\ UNCHANGED <<made, used_keys>>

\* d[key]: the key is recorded before the lookup, which raises if it is absent
MemoryDict__getitem__(key, res) ==
    /\ made
    /\ used_keys' = used_keys \cup {key}
    /\ res = IF key \in DOMAIN paths THEN "ok" ELSE "KeyError"
    /\ UNCHANGED <<made, paths>>

\* d.update(new_data)
MemoryDict_update(new_data, res) ==
    /\ made
    /\ IF ReservedIn(new_data) # {}
       THEN /\ res = "KeyError"
            /\ UNCHANGED <<made, paths, used_keys>>
       ELSE /\ res = "ok"
            /\ paths' = DictMerge(paths, new_data)
            /\ UNCHANGED <<made, used_keys>>

Results == {"ok", "KeyError"}

(***************************************************************************)
(* The idle values of the parts of the state a specification leaves alone. *)
(***************************************************************************)
NoFrame == [pc |-> "idle"]
NoEvent == [kind |-> "none"]
NoFile == <<>>
NoValue == [kind |-> "none"]
NoArchive == [exists |-> FALSE, names |-> {}]

ProcIdle ==
    /\ phase = "running"
    /\ globals_ = EmptyDict
    /\ sys_excepthook = "default"
    /\ EXCEPTION = "None"
    /\ atexit_ = <<>>
    /\ calls = 0
    /\ runs = 0

RunIdle ==
    /\ fr = NoFrame
    /\ rprFile = NoFile
    /\ dsFile = NoArchive
    /\ ev = NoEvent

FnIdle ==
    /\ arg = NoValue
    /\ ret = NoValue

(***************************************************************************)
(* SpecMemoryDict: a MemoryDict under construction, item assignment,       *)
(* update and lookup.                                                      *)
(***************************************************************************)
MDConstruct ==
    /\ \E initial_data \in Dicts(PathKeys, PathVals), res \in Results :
        /\ MemoryDict__init__(initial_data, res)
        /\ mdOp' = [op |-> "init", keys |-> DOMAIN initial_data, res |-> res]
    /\ UNCHANGED <<procVars, runVars, fnVars>>

MDSetItem ==
    /\ \E key \in PathKeys, value \in PathVals, res \in Results :
        /\ MemoryDict__setitem__(key, value, res)
        /\ mdOp' = [op |-> "setitem", keys |-> {key}, res |-> res]
    /\ UNCHANGED <<procVars, runVars, fnVars>>

MDGetItem ==
    /\ \E key \in PathKeys, res \in Results :
        /\ MemoryDict__getitem__(key, res)
        /\ mdOp' = [op |-> "getitem", keys |-> {key}, res |-> res]
    /\ UNCHANGED <<procVars, runVars, fnVars>>

MDUpdate ==
    /\ \E new_data \in Dicts(PathKeys, PathVals), res \in Results :
        /\ MemoryDict_update(new_data, res)
        /\ mdOp' = [op |-> "update", keys |-> DOMAIN new_data, res |-> res]
    /\ UNCHANGED <<procVars, runVars, fnVars>>

InitMemoryDict ==
    /\ made = FALSE
    /\ paths = EmptyDict
    /\ used_keys = {}
    /\ mdOp = NoOp
    /\ ProcIdle /\ RunIdle /\ FnIdle

NextMemoryDict == MDConstruct \/ MDSetItem \/ MDGetItem \/ MDUpdate

SpecMemoryDict == InitMemoryDict /\ [][NextMemoryDict]_vars

(***************************************************************************)
(* C4: the mapping never contains the reserved key _root_data, and every   *)
(* construction, item assignment or update that would insert it ends in    *)
(* KeyError and leaves the mapping (its existence, its contents) and the   *)
(* recorded set of read keys as they were.                                 *)
(***************************************************************************)
WouldInsertReserved(o) ==
    /\ o.op \in {"init", "setitem", "update"}
    /\ o.keys \cap RESERVED_KEYS # {}

C4_ReservedNeverInserted ==
    /\ [](made => (DOMAIN paths) \cap RESERVED_KEYS = {})
    /\ [][WouldInsertReserved(mdOp') =>
            /\ mdOp'.res = "KeyError"
            /\ made' = made /\ paths' = paths /\ used_keys' = used_keys]_vars

C4_Witness ==
    /\ made
    /\ mdOp.op = "update" /\ mdOp.res = "KeyError"
    /\ mdOp.keys = PathKeys
    /\ DOMAIN paths = {"raw"}
    /\ used_keys = {"raw"}

(***************************************************************************)
(* Python str values that the code builds from pieces, splits or joins: a  *)
(* sequence of chunks, where the newline character is a chunk of its own.  *)
(***************************************************************************)
Chunk(kind, s, n, m) == [kind |-> kind, s |-> s, n |-> n, m |-> m]
NL == Chunk("nl", "", 0, 0)
EmptyStr == <<>>

\* sep.join(strs)
RECURSIVE StrJoin(_, _)
StrJoin(sep, strs) ==
    IF strs = <<>> THEN EmptyStr
    ELSE IF Len(strs) = 1 THEN strs[1]
    ELSE strs[1] \o sep \o StrJoin(sep, Tail(strs))

\* the index of the first newline of s, 0 if it has none
RECURSIVE FirstNL(_, _)
FirstNL(s, i) ==
    IF i > Len(s) THEN 0
    ELSE IF s[i] = NL THEN i
    ELSE FirstNL(s, i + 1)

\* s.split("\n"): never empty, "" splits to [""]
RECURSIVE StrSplitNL(_)
StrSplitNL(s) ==
    LET i == FirstNL(s, 1) IN
    IF i = 0 THEN <<s>>
    ELSE <<SubSeq(s, 1, i - 1)>> \o StrSplitNL(SubSeq(s, i + 1, Len(s)))

\* s.splitlines(): the lines without their terminators, "" has none
StrSplitLines(s) ==
    LET parts == StrSplitNL(s) IN
    IF parts[Len(parts)] = EmptyStr THEN SubSeq(parts, 1, Len(parts) - 1) ELSE parts

\* seq[:n]
Take(seq, n) == SubSeq(seq, 1, IF n < Len(seq) THEN n ELSE Len(seq))

SeqRange(seq) == {seq[i] : i \in 1..Len(seq)}

(***************************************************************************)
(* data_dir_to_str (src/hal/repro.py).  A directory is what glob("**/*")   *)
(* enumerates under it, in enumeration order: entry names, each a regular  *)
(* file or a subdirectory.  A directory that does not exist enumerates     *)
(* nothing.                                                                *)
(***************************************************************************)
MAX_DATA_DIR_FILES == 3

Dir(path, exists, entries) ==
    [kind |-> "dir", path |-> path, exists |-> exists, entries |-> entries]

\* data_dir.glob("**/*")
Glob(data_dir) == IF data_dir.exists THEN data_dir.entries ELSE <<>>

\* f.relative_to(data_dir).as_posix()
RelPosix(f) == <<Chunk("path", "", f.name, 0)>>

IsFile(f) == f.is_file

\* an f-string piece naming the directory, and the one naming the counts
DataDirectoryLine(data_dir) == <<Chunk("Data directory: ", data_dir.path, 0, 0)>>
ShowingFirstLine(shown, total) == <<Chunk("  (showing first n of m files)", "", shown, total)>>

\* [f.relative_to(data_dir).as_posix() for f in data_dir.glob("**/*") if f.is_file()]
AllFiles(data_dir) ==
    LET files == SelectSeq(Glob(data_dir), IsFile)
    IN  [i \in 1..Len(files) |-> RelPosix(files[i])]

data_dir_to_str_uncapped(data_dir) ==
    LET all_files == AllFiles(data_dir) IN
    IF all_files = <<>> THEN EmptyStr
    ELSE DataDirectoryLine(data_dir) \o <<NL>>
         \o (IF Len(all_files) > MAX_DATA_DIR_FILES
             THEN ShowingFirstLine(MAX_DATA_DIR_FILES, Len(all_files)) \o <<NL>>
             ELSE EmptyStr)
         \o StrJoin(<<NL>>, all_files) \o <<NL>>

data_dir_to_str(data_dir) ==
    LET all_files == AllFiles(data_dir) IN
    IF all_files = <<>> THEN EmptyStr
    ELSE DataDirectoryLine(data_dir) \o <<NL>>
         \o (IF Len(all_files) > MAX_DATA_DIR_FILES
             THEN ShowingFirstLine(MAX_DATA_DIR_FILES, Len(all_files)) \o <<NL>>
             ELSE EmptyStr)
         \o StrJoin(<<NL>>, Take(all_files, MAX_DATA_DIR_FILES)) \o <<NL>>

(***************************************************************************)
(* SpecDataDir: data_dir_to_str applied to a directory.                    *)
(***************************************************************************)
\* the directories with up to MaxDirEntries entries; entry i is named i
DirListings ==
    UNION {[1..n -> BOOLEAN] : n \in 0..MaxDirEntries}

DirOf(path, listing) ==
    Dir(path, TRUE, [i \in 1..Len(listing) |-> [name |-> i, is_file |-> listing[i]]])

MissingDir(path) == Dir(path, FALSE, <<>>)

InitDataDir ==
    /\ arg \in {MissingDir("/mnt/a")} \cup {DirOf("/mnt/a", l) : l \in DirListings}
    /\ ret = NoValue
    /\ made = FALSE /\ paths = EmptyDict /\ used_keys = {} /\ mdOp = NoOp
    /\ ProcIdle /\ RunIdle

CallDataDirToStr ==
    /\ arg.kind = "dir"
    /\ ret = NoValue
    /\ ret' = [kind |-> "str", s |-> data_dir_to_str(arg)]
    /\ UNCHANGED <<arg, mdVars, procVars, runVars>>

NextDataDir == CallDataDirToStr

SpecDataDir == InitDataDir /\ [][NextDataDir]_vars

(***************************************************************************)
(* C9: data_dir_to_str returns empty text for a directory that does not    *)
(* exist or holds no regular file; for N regular files, 1 <= N <= the cap, *)
(* one header line naming the directory and then exactly the N relative    *)
(* paths, one per line; for N above the cap, the header line, a line       *)
(* stating the cap and the true count N, and exactly the first cap paths.  *)
(***************************************************************************)
FileNames(data_dir) ==
    LET files == SelectSeq(data_dir.entries, IsFile) IN
    [i \in 1..Len(files) |-> files[i].name]

PathLine(name) == <<Chunk("path", "", name, 0)>>

C9_DataDirListing ==
    (arg.kind = "dir" /\ ret.kind = "str") =>
        LET N == IF arg.exists THEN Len(FileNames(arg)) ELSE 0
            names == FileNames(arg)
            lines == StrSplitLines(ret.s)
        IN  /\ (N = 0) => ret.s = EmptyStr
            /\ (N > 0) => ret.s[Len(ret.s)] = NL
            /\ (1 <= N /\ N <= MAX_DATA_DIR_FILES) =>
                /\ Len(lines) = N + 1
                /\ lines[1] = DataDirectoryLine(arg)
                /\ \A i \in 1..N : lines[i + 1] = PathLine(names[i])
            /\ (N > MAX_DATA_DIR_FILES) =>
                /\ Len(lines) = MAX_DATA_DIR_FILES + 2
                /\ lines[1] = DataDirectoryLine(arg)
                /\ lines[2] = ShowingFirstLine(MAX_DATA_DIR_FILES, N)
                /\ \A i \in 1..MAX_DATA_DIR_FILES : lines[i + 2] = PathLine(names[i])

C9_Witness ==
    /\ arg.kind = "dir" /\ ret.kind = "str"
    /\ Len(FileNames(arg)) = MAX_DATA_DIR_FILES + 1
    /\ Len(arg.entries) > Len(FileNames(arg))
    /\ ret.s # EmptyStr

(***************************************************************************)
(* The package inventory of _reproduce (src/hal/repro.py, lines 125-145).  *)
(*                                                                         *)
(* A name (a str) is the sequence of its dot-separated components, so that *)
(* "os.path".split(".")[0] is something the model computes.  The elements  *)
(* of a Python set carry their type: a str and a tuple of strs are never   *)
(* equal, whatever they hold.                                              *)
(***************************************************************************)
PyStr(name) == [t |-> "str", v |-> name]
PyTuple(names) == [t |-> "tuple", v |-> names]

\* name.split(".")[0]
TopLevel(name) == <<Head(name)>>

\* values a namespace can hold
PyModule(name) == [kind |-> "module", name |-> name]       \* a ModuleType, its __name__
PyObject(module) == [kind |-> "object", name |-> module]   \* anything with a __module__
PyPlain == [kind |-> "plain", name |-> <<>>]               \* no __module__ attribute

ModSys == PyModule(<<"sys">>)                    \* import sys
ModJsonDecoder == PyModule(<<"json", "decoder">>) \* import json.decoder as d
ClsPath == PyObject(<<"pathlib">>)               \* from pathlib import Path
FnReproduce == PyObject(<<"hal", "repro">>)      \* from hal.repro import reproduce
ModNumpy == PyModule(<<"numpy">>)                \* import numpy
IntValue == PyPlain                              \* x = 3

PyValues == {ModSys, ModJsonDecoder, ClsPath, FnReproduce, ModNumpy, IntValue}

\* set(gen_imports(globals_))
gen_imports(namespace) ==
    {PyStr(TopLevel(namespace[n].name)) :
        n \in {k \in DOMAIN namespace : namespace[k].kind \in {"module", "object"}}}

\* sys.builtin_module_names: a tuple of names compiled into the interpreter
sys_builtin_module_names == PyTuple(<<"builtins", "sys", "time">>)

\* Path(stdlib_pth).iterdir(): the file names in the standard-library directory
StdlibDirListing ==
    {<<"json">>, <<"pathlib", "py">>, <<"os", "py">>, <<"site-packages">>}

\* p.stem: the name without its last suffix
PathStem(name) == IF Len(name) > 1 THEN SubSeq(name, 1, Len(name) - 1) ELSE name

\* s.replace(".py", ""): drops every ".py" inside the name
ReplaceDotPy(name) ==
    LET Keep(i) == i = 1 \/ name[i] # "py"
        idx == {i \in 1..Len(name) : Keep(i)}
        Nth(k) == CHOOSE i \in idx : Cardinality({j \in idx : j < i}) = k - 1
    IN  [k \in 1..Cardinality(idx) |-> name[Nth(k)]]

stdlib == {PyStr(ReplaceDotPy(PathStem(p))) : p \in StdlibDirListing}

\* cfg.root / "editable": absent, or subdirectories each holding importable modules
NoEditableDir == [exists |-> FALSE, subdirs |-> {}]
EditableDirWith(mods) == [exists |-> TRUE, subdirs |-> {[modules |-> mods]}]

\* {p.name for p in pkgutil.iter_modules(editable_modules)}
editable_packages(editable) ==
    IF editable.exists
    THEN {PyStr(m) : m \in UNION {d.modules : d \in editable.subdirs}}
    ELSE {}

\* `combined` as lines 134-145 compute it
InterestingPackages(namespace, packages, editable) ==
    (((({PyStr(packages[i]) : i \in 1..Len(packages)}
            \cup gen_imports(namespace) \cup editable_packages(editable))
        \ {sys_builtin_module_names})
        \ stdlib)
        \ {PyStr(<<"hal">>), PyStr(<<"builtins">>)})

(***************************************************************************)
(* SpecInventory: the inventory computed for a namespace, a package list   *)
(* and an editable-installs directory.                                     *)
(***************************************************************************)
Namespaces == UNION {[1..n -> PyValues] : n \in 0..MaxNamespace}
PackageLists == {<<>>, <<<<"scipy">>>>}
EditableDirs == {NoEditableDir, EditableDirWith({<<"mylib">>})}

InitInventory ==
    /\ arg \in [kind : {"inventory"}, namespace : Namespaces,
                packages : PackageLists, editable : EditableDirs]
    /\ ret = NoValue
    /\ made = FALSE /\ paths = EmptyDict /\ used_keys = {} /\ mdOp = NoOp
    /\ ProcIdle /\ RunIdle

CallInventory ==
    /\ arg.kind = "inventory"
    /\ ret = NoValue
    /\ ret' = [kind |-> "set",
               s |-> InterestingPackages(arg.namespace, arg.packages, arg.editable)]
    /\ UNCHANGED <<arg, mdVars, procVars, runVars>>

NextInventory == CallInventory

SpecInventory == InitInventory /\ [][NextInventory]_vars

(***************************************************************************)
(* C7: for a namespace whose values are only standard-library modules and  *)
(* values (interpreter built-in modules such as sys included) and the      *)
(* toolkit's own symbols, with no caller-supplied packages and no          *)
(* editable-installs directory, the interesting-package set is empty.      *)
(***************************************************************************)
StdlibOrToolkit == {ModSys, ModJsonDecoder, ClsPath, FnReproduce, IntValue}

C7_StdlibNamespaceGivesEmptySet ==
    (/\ arg.kind = "inventory" /\ ret.kind = "set"
     /\ \A n \in DOMAIN arg.namespace : arg.namespace[n] \in StdlibOrToolkit
     /\ arg.packages = <<>>
     /\ ~arg.editable.exists)
        => ret.s = {}

(***************************************************************************)
(* Zip archives (zipfile.ZipFile in mode "w").  A file is a sequence of    *)
(* cells; cell i is at offset i - 1.  A member takes one cell for its      *)
(* local header and first data and further cells for more data.  A writer  *)
(* appends members at its own start_dir offset, and on close writes the    *)
(* central directory (with the end record) at start_dir.  Every write goes *)
(* to the file at once: ZipFile seeks, which flushes, around each member.  *)
(***************************************************************************)
Cell(kind, name, dir) == [kind |-> kind, name |-> name, dir |-> dir]
ZeroCell == Cell("zero", "", <<>>)
LocalCell(name) == Cell("local", name, <<>>)
DataCell(name) == Cell("data", name, <<>>)
CentralDirectory(filelist) == Cell("cd", "", filelist)

NoWriter == [open |-> FALSE, start_dir |-> 0, filelist |-> <<>>]

\* write `cells` into `file` at offset `pos`, the way a seek and a write do
WriteAt(file, pos, cells) ==
    LET end == IF pos + Len(cells) > Len(file) THEN pos + Len(cells) ELSE Len(file)
    IN  [i \in 1..end |->
            IF i > pos /\ i <= pos + Len(cells) THEN cells[i - pos]
            ELSE IF i <= Len(file) THEN file[i]
            ELSE ZeroCell]

\* ZipFile(path, "w"): the file is created or truncated; the writer starts at 0
ZipOpenW == [file |-> <<>>, w |-> [open |-> TRUE, start_dir |-> 0, filelist |-> <<>>]]

\* the cells of a member of `size` cells
MemberCells(name, size) ==
    [i \in 1..size |-> IF i = 1 THEN LocalCell(name) ELSE DataCell(name)]

\* zipf.write / zipf.writestr of one member
ZipWriteMember(fw, name, size) ==
    [file |-> WriteAt(fw.file, fw.w.start_dir, MemberCells(name, size)),
     w |-> [fw.w EXCEPT !.start_dir = @ + size,
                        !.filelist = Append(@, [name |-> name, off |-> fw.w.start_dir,
                                                size |-> size])]]

\* several one-cell members, in order
RECURSIVE ZipWriteMembers(_, _)
ZipWriteMembers(fw, names) ==
    IF names = <<>> THEN fw
    ELSE ZipWriteMembers(ZipWriteMember(fw, Head(names), 1), Tail(names))

\* ZipFile.close(): the central directory goes to start_dir
ZipClose(fw) ==
    [file |-> WriteAt(fw.file, fw.w.start_dir, <<CentralDirectory(fw.w.filelist)>>),
     w |-> [fw.w EXCEPT !.open = FALSE]]

\* ZipFile(path).namelist(): the directory the end of the file points to
IsZipFile(file) == file # <<>> /\ file[Len(file)].kind = "cd"
ZipNamelist(file) ==
    IF IsZipFile(file)
    THEN {file[Len(file)].dir[i].name : i \in 1..Len(file[Len(file)].dir)}
    ELSE {}

\* ZipFile(path).read(name) succeeds: the member's cells are where the directory says
ZipMemberIntact(file, e) ==
    /\ e.off + e.size < Len(file)
    /\ \A i \in 1..e.size : file[e.off + i] = MemberCells(e.name, e.size)[i]

ZipReadable(file) ==
    /\ IsZipFile(file)
    /\ \A i \in 1..Len(file[Len(file)].dir) : ZipMemberIntact(file, file[Len(file)].dir[i])

(***************************************************************************)
(* The version-control section of _reproduce (lines 157-177) and the two   *)
(* probes it calls.  What git does is the environment's: not installed,    *)
(* not inside a work tree, or a status listing (which may fail, since      *)
(* fetch_git_status runs in cfg.root and is_git_repo in the working        *)
(* directory).                                                             *)
(***************************************************************************)
Char(c) == Chunk("char", c, 0, 0)
Text(t, n) == Chunk("text", t, n, 0)

\* line.startswith(chars), for a line whose leading characters are Char chunks
StartsWith(line, chars) ==
    /\ Len(line) >= Len(chars)
    /\ \A i \in 1..Len(chars) : line[i] = Char(chars[i])

\* c in line[:2]
InFirstTwo(c, line) == \E i \in 1..Len(Take(line, 2)) : line[i] = Char(c)

StatusLine(x, y, file) == <<Char(x), Char(y), Text(" file", file)>>

GitEnv(installed, in_repo, status_ok, stdout) ==
    [installed |-> installed, in_repo |-> in_repo, status_ok |-> status_ok,
     stdout |-> stdout]

GitNotInstalled == GitEnv(FALSE, FALSE, FALSE, EmptyStr)
GitNotARepo == GitEnv(TRUE, FALSE, FALSE, EmptyStr)
GitStatusFails == GitEnv(TRUE, TRUE, FALSE, EmptyStr)
GitClean == GitEnv(TRUE, TRUE, TRUE, EmptyStr)
GitDirty ==
    GitEnv(TRUE, TRUE, TRUE,
           StatusLine("?", "?", 1) \o <<NL>> \o StatusLine(" ", "M", 2) \o <<NL>>)

GitEnvs == {GitNotInstalled, GitNotARepo, GitStatusFails, GitClean, GitDirty}

\* is_git_repo(): FileNotFoundError and CalledProcessError both give False
is_git_repo(git) == git.installed /\ git.in_repo

\* fetch_git_status(): check=True raises when the command fails
fetch_git_status(git) ==
    IF git.status_ok
    THEN [raised |-> "None", lines |-> StrSplitNL(git.stdout)]
    ELSE [raised |-> "CalledProcessError", lines |-> <<>>]

NoCounts == [untracked |-> 0, modified |-> 0, added |-> 0, deleted |-> 0, renamed |-> 0]

StatusCounts(lines) ==
    LET CountLines(ls, P(_)) == Cardinality({i \in 1..Len(ls) : P(ls[i])})
        untracked(l) == StartsWith(l, <<"?", "?">>)
        modified(l) == InFirstTwo("M", l)
        added(l) == StartsWith(l, <<"A", " ">>)
        deleted(l) == InFirstTwo("D", l)
        renamed(l) == StartsWith(l, <<"R", " ">>)
    IN  [untracked |-> CountLines(lines, untracked),
         modified |-> CountLines(lines, modified),
         added |-> CountLines(lines, added),
         deleted |-> CountLines(lines, deleted),
         renamed |-> CountLines(lines, renamed)]

GitResult(raised, isRepo, lines, unclean, warning, counts) ==
    [raised |-> raised, isRepo |-> isRepo, lines |-> lines, unclean |-> unclean,
     warning |-> warning, counts |-> counts]

\* lines 157-177: the probe, `unclean`, and the warning that is emitted
GitSection(git) ==
    IF is_git_repo(git)
    THEN LET st == fetch_git_status(git) IN
         IF st.raised # "None"
         THEN GitResult(st.raised, TRUE, <<>>, EmptyStr, "none", NoCounts)
         ELSE IF st.lines # <<>>
         THEN GitResult("None", TRUE, st.lines, StrJoin(<<NL>>, st.lines),
                        "counts", StatusCounts(st.lines))
         ELSE \* `counts` is unbound at the warning
              GitResult("UnboundLocalError", TRUE, <<>>, EmptyStr, "none", NoCounts)
    ELSE GitResult("None", FALSE, <<>>, EmptyStr, "not a git repository", NoCounts)

(***************************************************************************)
(* The watermark arguments (lines 147-184).                                *)
(***************************************************************************)
BaseMarkKwargs ==
    [author |-> "Jochem H. Smit", current_time |-> TRUE, current_date |-> TRUE,
     timezone |-> TRUE, updated |-> TRUE, python |-> TRUE, machine |-> TRUE]

GitMarkKwargs == [githash |-> TRUE, gitbranch |-> TRUE]

\* the git toggles dropped when the directory is no repository, whatever the caller passed
MarkKwargsForced(isRepo, watermark_kwargs) ==
    LET merged == DictMerge(DictMerge(BaseMarkKwargs,
                                      IF isRepo THEN GitMarkKwargs ELSE EmptyDict),
                            watermark_kwargs)
    IN  IF isRepo THEN merged
        ELSE [k \in (DOMAIN merged) \ (DOMAIN GitMarkKwargs) |-> merged[k]]

\* mark_kwargs as passed to watermark.watermark
MarkKwargs(isRepo, watermark_kwargs) ==
    DictMerge(DictMerge(BaseMarkKwargs, IF isRepo THEN GitMarkKwargs ELSE EmptyDict),
              watermark_kwargs)

\* a toggle of watermark.watermark, which is off unless passed as True
ToggleOn(kwargs, t) == t \in DOMAIN kwargs /\ kwargs[t] = TRUE

(***************************************************************************)
(* The dependency freeze (lines 207-217).                                  *)
(***************************************************************************)
UvEnv(installed, stdout, stderr) ==
    [installed |-> installed, stdout |-> stdout, stderr |-> stderr]

UvNotInstalled == UvEnv(FALSE, EmptyStr, EmptyStr)
UvFails == UvEnv(TRUE, EmptyStr, <<Text("error: no virtual environment found", 0), NL>>)
UvOk ==
    UvEnv(TRUE,
          <<Text("numpy==2.1.0", 0), NL,
            Char("-"), Char("e"), Text(" file:///proj/editable/mylib", 0), NL>>,
          EmptyStr)

UvEnvs == {UvNotInstalled, UvFails, UvOk}

NotEditableLine(line) == ~StartsWith(line, <<"-", "e">>)

\* subprocess.run without check: only a missing executable raises
FreezeSection(uv) ==
    IF ~uv.installed
    THEN [raised |-> "FileNotFoundError", freeze_no_editable |-> EmptyStr,
          stderr |-> EmptyStr]
    ELSE [raised |-> "None",
          freeze_no_editable |->
              StrJoin(<<NL>>, SelectSeq(StrSplitLines(uv.stdout), NotEditableLine)),
          stderr |-> uv.stderr]

(***************************************************************************)
(* The data paths (lines 219-224).                                         *)
(***************************************************************************)
RootDataPath == "<root>/data"
OutputPath == "<script dir>/output"

\* the keys in sorted order
KeyOrder == <<"_output", "_root_data", "raw">>
SortedKeys(S) == LET In(k) == k \in S IN SelectSeq(KeyOrder, In)

BuiltinPaths == [_root_data |-> RootDataPath, _output |-> OutputPath]

\* external_paths, when every recorded key is present in cfg.paths
ExternalPaths(external_data_paths, store, used) ==
    DictMerge(DictMerge(external_data_paths, BuiltinPaths),
              [k \in used \cap DOMAIN store |-> store[k]])

(***************************************************************************)
(* The process: the script runs (calls reproduce, reads cfg.paths, binds   *)
(* names), ends normally or with an uncaught exception, and the            *)
(* interpreter then runs the atexit callbacks, last registered first.      *)
(***************************************************************************)
Request(namespace, packages, external_data_paths, watermark_kwargs) ==
    [globals_ |-> namespace, packages |-> packages,
     external_data_paths |-> external_data_paths,
     watermark_kwargs |-> watermark_kwargs]

\* the arguments a script passes to reproduce()
ReproduceArgs ==
    {[packages |-> <<>>, external_data_paths |-> EmptyDict,
      watermark_kwargs |-> EmptyDict],
     [packages |-> <<<<"scipy">>>>,
      external_data_paths |-> [raw |-> "/mnt/a", _root_data |-> "/mnt/b"],
      watermark_kwargs |-> [githash |-> TRUE]],
     [packages |-> <<>>, external_data_paths |-> [_output |-> "/mnt/a"],
      watermark_kwargs |-> [githash |-> FALSE, gitbranch |-> TRUE]]}

\* the excepthook argument: the module's own hook (the default), or None
ExcepthookArgs == {"hal", "None"}

\* the script's namespace when it starts: __file__ and the imported entry point
ScriptGlobals == [__file__ |-> PyPlain, reproduce |-> FnReproduce]

\* config.yaml's paths section, which Config.from_yaml casts to a MemoryDict
ConfigPaths == [raw |-> "/mnt/a", _output |-> "/mnt/b"]

\* atexit.register run once per process, however often it is called
AtexitRegisterOnce(callbacks, cb) ==
    IF callbacks = <<>> THEN Append(callbacks, cb) ELSE callbacks

\* atexit.register(_reproduce, ...)
AtexitRegister(callbacks, cb) == Append(callbacks, cb)

\* repro.excepthook when installed; the interpreter's own hook records nothing
UncaughtException ==
    /\ EXCEPTION' = IF sys_excepthook = "hal" THEN "exc_info" ELSE EXCEPTION
    /\ phase' = "shutdown"

\* the namespace handed over as it is: the callback would hold the script's own dict
DictAlias(d) == [copied |-> FALSE, items |-> d]

\* globals_.copy(): the callback holds a dict of its own with the items of now
DictCopy(d) == [copied |-> TRUE, items |-> d]

\* the items of a dict the callback holds, at the time it reads them
Deref(held) == IF held.copied THEN held.items ELSE globals_

\* reproduce(globals(), packages, external_data_paths, excepthook, **watermark_kwargs)
reproduce(a, hook) ==
    /\ sys_excepthook' = IF hook # "None" THEN hook ELSE sys_excepthook
    /\ atexit_' = AtexitRegister(atexit_,
            Request(DictCopy(globals_), a.packages, a.external_data_paths,
                    a.watermark_kwargs))
    /\ calls' = calls + 1
    /\ UNCHANGED <<mdVars, phase, globals_, EXCEPTION, runs, runVars, fnVars>>

\* the script calls reproduce(), the one time a script is meant to
CallReproduce ==
    /\ phase = "running"
    /\ calls = 0
    /\ \E a \in ReproduceArgs, hook \in ExcepthookArgs : reproduce(a, hook)

\* the script calls reproduce(), again and again
CallReproduceRepeatedly ==
    /\ phase = "running"
    /\ calls < MaxCalls
    /\ \E a \in ReproduceArgs, hook \in ExcepthookArgs : reproduce(a, hook)

\* cfg.paths[key] in the script; a KeyError is caught by the script or ends it
ScriptLookup ==
    /\ phase = "running"
    /\ \E key \in PathKeys, res \in Results :
        /\ MemoryDict__getitem__(key, res)
        /\ \/ UNCHANGED <<phase, EXCEPTION>>
           \/ res = "KeyError" /\ UncaughtException
    /\ UNCHANGED <<mdOp, globals_, sys_excepthook, atexit_, calls, runs, runVars, fnVars>>

\* import numpy / import sys: a name of the namespace is bound or rebound
ScriptBind ==
    /\ phase = "running"
    /\ \E v \in {ModNumpy, ModSys} :
        /\ globals_' = DictMerge(globals_, [k \in {"m"} |-> v])
        /\ globals_' # globals_
    /\ UNCHANGED <<mdVars, phase, sys_excepthook, EXCEPTION, atexit_, calls, runs,
                   runVars, fnVars>>

\* del m
ScriptDel ==
    /\ phase = "running"
    /\ "m" \in DOMAIN globals_
    /\ globals_' = [k \in (DOMAIN globals_) \ {"m"} |-> globals_[k]]
    /\ UNCHANGED <<mdVars, phase, sys_excepthook, EXCEPTION, atexit_, calls, runs,
                   runVars, fnVars>>

\* the script's code runs to its end
ScriptFinish ==
    /\ phase = "running"
    /\ phase' = "shutdown"
    /\ UNCHANGED <<mdVars, globals_, sys_excepthook, EXCEPTION, atexit_, calls, runs,
                   runVars, fnVars>>

\* the script ends with an uncaught exception: sys.excepthook is called
ScriptRaise ==
    /\ phase = "running"
    /\ UncaughtException
    /\ UNCHANGED <<mdVars, globals_, sys_excepthook, atexit_, calls, runs,
                   runVars, fnVars>>

(***************************************************************************)
(* _reproduce, step by step.  The frame holds its position and the locals  *)
(* that are still to be read.                                              *)
(***************************************************************************)
Frame(pc, req) ==
    [pc |-> pc, req |-> req, combined |-> {}, isRepo |-> FALSE, lines |-> <<>>,
     unclean |-> EmptyStr, stderr |-> EmptyStr, external_paths |-> EmptyDict,
     rpr_zip |-> NoWriter, rpr_zip2 |-> NoWriter, last_write |-> "none"]

Running(pc) == phase = "shutdown" /\ fr.pc = pc

\* an exception leaves _reproduce: atexit reports it and goes on
Raise(exc, tool) ==
    /\ fr' = NoFrame
    /\ ev' = [kind |-> "raise", exc |-> exc, tool |-> tool]

\* the interpreter takes the last registered callback and calls it
AtexitRun ==
    /\ Running("idle")
    /\ atexit_ # <<>>
    /\ fr' = Frame("inventory", atexit_[Len(atexit_)])
    /\ atexit_' = SubSeq(atexit_, 1, Len(atexit_) - 1)
    /\ runs' = runs + 1
    /\ ev' = [kind |-> "enter"]
    /\ UNCHANGED <<mdVars, phase, globals_, sys_excepthook, EXCEPTION, calls,
                   rprFile, dsFile, fnVars>>

\* lines 121-145: the output directory, the editable packages, `combined`
ReproduceInventory ==
    /\ Running("inventory")
    /\ \E editable \in EditableDirs :
        LET combined == InterestingPackages(Deref(fr.req.globals_), fr.req.packages,
                                               editable)
        IN  /\ fr' = [fr EXCEPT !.pc = "git", !.combined = combined]
            /\ ev' = [kind |-> "inventory", combined |-> combined]
    /\ UNCHANGED <<mdVars, procVars, rprFile, dsFile, fnVars>>

\* lines 157-177: the git probe and its warning
ReproduceGit ==
    /\ Running("git")
    /\ \E git \in GitEnvs :
        LET g == GitSection(git) IN
        IF g.raised # "None"
        THEN Raise(g.raised, "git")
        ELSE /\ fr' = [fr EXCEPT !.pc = "watermark", !.isRepo = g.isRepo,
                                 !.lines = g.lines, !.unclean = g.unclean]
             /\ ev' = [kind |-> "git", isRepo |-> g.isRepo, warning |-> g.warning,
                       counts |-> g.counts, status |-> git.stdout]
    /\ UNCHANGED <<mdVars, procVars, rprFile, dsFile, fnVars>>

\* lines 179-205: the watermark call, the versions of the requested packages
\* (importlib.import_module raises for one that is not installed), the mark text
ReproduceWatermark ==
    /\ Running("watermark")
    /\ \E importable \in BOOLEAN :
        LET mark_kwargs == MarkKwargs(fr.isRepo, fr.req.watermark_kwargs) IN
        IF fr.req.packages # <<>> /\ ~importable
        THEN Raise("ModuleNotFoundError", "none")
        ELSE /\ fr' = [fr EXCEPT !.pc = "freeze", !.combined = {}, !.isRepo = FALSE,
                                 !.lines = <<>>, !.unclean = EmptyStr]
             /\ ev' = [kind |-> "watermark", isRepo |-> fr.isRepo,
                       mark_kwargs |-> mark_kwargs, packages |-> fr.combined,
                       lines |-> fr.lines,
                       unclean_section |-> fr.unclean # EmptyStr]
    /\ UNCHANGED <<mdVars, procVars, rprFile, dsFile, fnVars>>

\* lines 207-217: uv pip freeze
ReproduceFreeze ==
    /\ Running("freeze")
    /\ \E uv \in UvEnvs :
        LET f == FreezeSection(uv) IN
        IF f.raised # "None"
        THEN Raise(f.raised, "uv")
        ELSE /\ fr' = [fr EXCEPT !.pc = "paths", !.stderr = f.stderr]
             /\ ev' = [kind |-> "freeze", freeze_no_editable |-> f.freeze_no_editable,
                       stderr |-> f.stderr]
    /\ UNCHANGED <<mdVars, procVars, rprFile, dsFile, fnVars>>

\* lines 219-224: cfg.paths[k] for every recorded key, in sorted order (each
\* lookup records a key that is recorded already); the first absent one raises
ReproducePaths ==
    /\ Running("paths")
    /\ LET external_keys == SortedKeys(used_keys)
           IsAbsent(k) == k \notin DOMAIN paths
       IN  IF SelectSeq(external_keys, IsAbsent) # <<>>
           THEN Raise("KeyError", "none")
           ELSE /\ fr' = [fr EXCEPT !.pc = "open",
                            !.external_paths =
                                ExternalPaths(fr.req.external_data_paths, paths, used_keys)]
                /\ ev' = [kind |-> "paths",
                          external_paths |->
                              ExternalPaths(fr.req.external_data_paths, paths, used_keys)]
    /\ UNCHANGED <<mdVars, procVars, rprFile, dsFile, fnVars>>

\* the members of the primary archive, in the order lines 230-247 write them
PrimaryMembers(stderr, lockfile, toolbox) ==
    <<"scripts/run.py", "watermark.txt", "uv_pip_freeze.txt">>
    \o (IF stderr # EmptyStr THEN <<"uv_pip_freeze_error.txt">> ELSE <<>>)
    \o (IF lockfile THEN <<"uv.lock">> ELSE <<>>)
    \o (IF toolbox THEN <<"ava/tools.py">> ELSE <<>>)

\* line 227: the primary archive is opened for writing
ReproduceOpen ==
    /\ Running("open")
    /\ rprFile' = ZipOpenW.file
    /\ fr' = [fr EXCEPT !.pc = "write", !.rpr_zip = ZipOpenW.w]
    /\ ev' = [kind |-> "open"]
    /\ UNCHANGED <<mdVars, procVars, dsFile, fnVars>>

\* lines 230-247: the scripts, the watermark, the freeze, the lockfile and the
\* toolbox directory if they exist
ReproduceWritePrimary ==
    /\ Running("write")
    /\ \E lockfile \in BOOLEAN, toolbox \in BOOLEAN :
        LET fw == ZipWriteMembers([file |-> rprFile, w |-> fr.rpr_zip],
                                  PrimaryMembers(fr.stderr, lockfile, toolbox))
        IN  /\ rprFile' = fw.file
            /\ fr' = [fr EXCEPT !.pc = "exception", !.rpr_zip = fw.w, !.stderr = EmptyStr,
                                !.last_write = "primary"]
    /\ ev' = [kind |-> "write"]
    /\ UNCHANGED <<mdVars, procVars, dsFile, fnVars>>

\* lines 250-257, inside the primary archive's with block: if an exception was
\* recorded, the same path is opened for writing a second time
ReproduceException ==
    /\ Running("exception")
    /\ IF EXCEPTION # "None"
       THEN /\ rprFile' = ZipOpenW.file
            /\ fr' = [fr EXCEPT !.pc = "error", !.rpr_zip2 = ZipOpenW.w]
       ELSE /\ fr' = [fr EXCEPT !.pc = "close"]
            /\ UNCHANGED rprFile
    /\ ev' = [kind |-> "exception"]
    /\ UNCHANGED <<mdVars, procVars, dsFile, fnVars>>

\* line 259 and the end of the inner with block: error.txt is written and the
\* second writer closed
ReproduceWriteError ==
    /\ Running("error")
    /\ \E size \in {1, MaxErrCells} :
        LET fw == ZipClose(ZipWriteMember([file |-> rprFile, w |-> fr.rpr_zip2],
                                          "error.txt", size))
        IN  /\ rprFile' = fw.file
            /\ fr' = [fr EXCEPT !.pc = "close", !.rpr_zip2 = fw.w, !.last_write = "error"]
    /\ ev' = [kind |-> "error"]
    /\ UNCHANGED <<mdVars, procVars, dsFile, fnVars>>

\* the end of the outer with block: the primary writer is closed
ReproduceClosePrimary ==
    /\ Running("close")
    /\ LET fw == ZipClose([file |-> rprFile, w |-> fr.rpr_zip])
       IN  /\ rprFile' = fw.file
           /\ fr' = [fr EXCEPT !.pc = "data", !.rpr_zip = fw.w, !.rpr_zip2 = NoWriter,
                               !.last_write = "primary"]
    /\ ev' = [kind |-> "close"]
    /\ UNCHANGED <<mdVars, procVars, dsFile, fnVars>>

\* the directory at a path: what the file system holds there
DirAt(path, root_data_exists) ==
    IF path = "/mnt/a" THEN DirOf(path, <<TRUE, FALSE, TRUE>>)
    ELSE IF path = RootDataPath /\ root_data_exists THEN DirOf(path, <<TRUE>>)
    ELSE IF path = OutputPath THEN DirOf(path, <<TRUE, TRUE>>)  \* the two archives
    ELSE MissingDir(path)

\* lines 263-271: one <key>.txt per data path with a listing that is not empty
ReproduceDataSources ==
    /\ Running("data")
    /\ \E root_data_exists \in BOOLEAN :
        dsFile' = [exists |-> TRUE,
                   names |-> {k \in DOMAIN fr.external_paths :
                                data_dir_to_str(DirAt(fr.external_paths[k],
                                                      root_data_exists)) # EmptyStr}]
    /\ fr' = NoFrame
    /\ ev' = [kind |-> "return"]
    /\ UNCHANGED <<mdVars, procVars, rprFile, fnVars>>

\* no callback is left: the process ends
Exit ==
    /\ Running("idle")
    /\ atexit_ = <<>>
    /\ phase' = "exited"
    /\ ev' = NoEvent
    /\ UNCHANGED <<mdVars, globals_, sys_excepthook, EXCEPTION, atexit_, calls, runs,
                   fr, rprFile, dsFile, fnVars>>

Init ==
    /\ made = TRUE
    /\ paths = ConfigPaths
    /\ used_keys = {}
    /\ mdOp = [op |-> "init", keys |-> DOMAIN ConfigPaths, res |-> "ok"]
    /\ phase = "running"
    /\ globals_ = ScriptGlobals
    /\ sys_excepthook = "default"
    /\ EXCEPTION = "None"
    /\ atexit_ = <<>>
    /\ calls = 0
    /\ runs = 0
    /\ RunIdle /\ FnIdle

Next ==
    \/ CallReproduce \/ ScriptLookup \/ ScriptBind \/ ScriptDel
    \/ ScriptFinish \/ ScriptRaise
    \/ AtexitRun
    \/ ReproduceInventory \/ ReproduceGit \/ ReproduceWatermark \/ ReproduceFreeze
    \/ ReproducePaths \/ ReproduceOpen \/ ReproduceWritePrimary \/ ReproduceException
    \/ ReproduceWriteError \/ ReproduceClosePrimary \/ ReproduceDataSources
    \/ Exit

Spec == Init /\ [][Next]_vars

(***************************************************************************)
(* SpecCalls: a script that calls reproduce() several times and ends.      *)
(***************************************************************************)
ReproduceStep ==
    \/ ReproduceInventory \/ ReproduceGit \/ ReproduceWatermark \/ ReproduceFreeze
    \/ ReproducePaths \/ ReproduceOpen \/ ReproduceWritePrimary \/ ReproduceException
    \/ ReproduceWriteError \/ ReproduceClosePrimary \/ ReproduceDataSources

NextCalls ==
    \/ CallReproduceRepeatedly \/ ScriptFinish \/ ScriptRaise
    \/ AtexitRun \/ ReproduceStep \/ Exit

SpecCalls == Init /\ [][NextCalls]_vars

(***************************************************************************)
(* C1: when an uncaught exception was recorded, output/_rpr.zip is, once   *)
(* _reproduce has returned, an archive whose only entry is error.txt; when *)
(* none was recorded it holds the primary entries and no error.txt.        *)
(***************************************************************************)
AlwaysWritten == {"scripts/run.py", "watermark.txt", "uv_pip_freeze.txt"}

C1_ErrorArchiveReplacesPrimary ==
    ev.kind = "return" =>
        IF EXCEPTION # "None"
        THEN ZipReadable(rprFile) /\ ZipNamelist(rprFile) = {"error.txt"}
        ELSE /\ ZipReadable(rprFile)
             /\ AlwaysWritten \subseteq ZipNamelist(rprFile)
             /\ "error.txt" \notin ZipNamelist(rprFile)

(***************************************************************************)
(* C2, as claimed: however often reproduce() is called, _reproduce is      *)
(* entered at most once, and exactly once by the end of a process that     *)
(* called reproduce().                                                     *)
(***************************************************************************)
C2_AtMostOncePerProcess ==
    /\ runs <= 1
    /\ (phase = "exited" /\ calls >= 1) => runs = 1

(***************************************************************************)
(* C2, amended: _reproduce is entered once per call of reproduce(): never  *)
(* while the script runs, and by the end of the process as many times as   *)
(* reproduce() was called (once after one call), whether or not the script *)
(* ended with an uncaught exception.                                       *)
(***************************************************************************)
C2_OncePerCall ==
    /\ phase = "running" => runs = 0
    /\ runs + Len(atexit_) = calls
    /\ phase = "exited" => runs = calls

C2_Witness ==
    /\ phase = "exited"
    /\ calls = 2 /\ runs = 2
    /\ EXCEPTION # "None"

(***************************************************************************)
(* C3: no exception leaves _reproduce because the version-control command  *)
(* or the dependency-freeze command is missing or fails.                   *)
(***************************************************************************)
C3_ToolFailureNonFatal ==
    ev.kind = "raise" => ev.tool = "none"

(***************************************************************************)
(* C5: the resolved data paths are the caller-supplied keys, the keys read *)
(* from cfg.paths and the two built-in keys, and _root_data and _output    *)
(* always resolve to <root>/data and to the run's output directory.        *)
(***************************************************************************)
C5_BuiltinPathsResolve ==
    ev.kind = "paths" =>
        /\ DOMAIN ev.external_paths
            = (DOMAIN fr.req.external_data_paths) \cup used_keys \cup {"_root_data", "_output"}
        /\ ev.external_paths["_root_data"] = RootDataPath
        /\ ev.external_paths["_output"] = OutputPath

(***************************************************************************)
(* C6, as claimed: outside a repository the watermark builder is called    *)
(* with githash and gitbranch off whatever the caller passed, with the     *)
(* 'not a git repository' warning emitted; inside one they are on unless   *)
(* the caller passed them.                                                 *)
(***************************************************************************)
GitToggles == {"githash", "gitbranch"}

NotARepoWarning ==
    ev.kind = "git" => (ev.warning = "not a git repository" <=> ~ev.isRepo)

C6_GitTogglesForcedOff ==
    /\ NotARepoWarning
    /\ (ev.kind = "watermark" /\ ~ev.isRepo) =>
            \A t \in GitToggles : ~ToggleOn(ev.mark_kwargs, t)
    /\ (ev.kind = "watermark" /\ ev.isRepo) =>
            \A t \in GitToggles \ DOMAIN fr.req.watermark_kwargs :
                ToggleOn(ev.mark_kwargs, t)

(***************************************************************************)
(* C6, amended: the 'not a git repository' warning is emitted exactly      *)
(* outside a repository, and each of githash and gitbranch reaches the     *)
(* watermark builder with the value the caller passed in watermark_kwargs  *)
(* if the caller passed one, and otherwise on inside a repository and off  *)
(* outside one.                                                            *)
(***************************************************************************)
C6_GitTogglesDefaulted ==
    /\ NotARepoWarning
    /\ ev.kind = "watermark" =>
            \A t \in GitToggles :
                ToggleOn(ev.mark_kwargs, t) =
                    IF t \in DOMAIN fr.req.watermark_kwargs
                    THEN fr.req.watermark_kwargs[t]
                    ELSE ev.isRepo

C6_Witness ==
    /\ ev.kind = "watermark" /\ ~ev.isRepo
    /\ ToggleOn(ev.mark_kwargs, "githash")
    /\ ~ToggleOn(ev.mark_kwargs, "gitbranch")

(***************************************************************************)
(* C8: the count warning is emitted exactly when the repository is dirty   *)
(* (the status command reports a file), and so is the 'Git repository is   *)
(* unclean' section of the watermark; a clean repository gets neither.     *)
(***************************************************************************)
C8_CountWarningOnlyWhenDirty ==
    /\ ev.kind = "git" => (ev.warning = "counts" <=> ev.status # EmptyStr)
    /\ ev.kind = "watermark" =>
            (ev.unclean_section <=> \E i \in 1..Len(ev.lines) : ev.lines[i] # EmptyStr)

(***************************************************************************)
(* C10: the error-report archive is opened only after the primary archive  *)
(* is closed: two writers are never open on _rpr.zip together, and when an *)
(* exception was recorded the last write to the file is the error pass's.  *)
(***************************************************************************)
C10_WritePassesSequential ==
    fr.pc # "idle" =>
        /\ ~(fr.rpr_zip.open /\ fr.rpr_zip2.open)
        /\ (fr.pc = "data" /\ EXCEPTION # "None") => fr.last_write = "error"

(***************************************************************************)
(* C11: every key of the recorded read-set _used_keys is a key present in  *)
(* the mapping, so the re-lookup cfg.paths[k] that _reproduce makes for    *)
(* each recorded key never raises KeyError.                                *)
(***************************************************************************)
C11_RecordedKeysPresent ==
    /\ made => used_keys \subseteq DOMAIN paths
    /\ ~(ev.kind = "raise" /\ ev.exc = "KeyError")

(***************************************************************************)
(* C12: the interesting-package set that _reproduce computes (and hands to *)
(* the watermark) is the one of the script's namespace as it was when      *)
(* reproduce() was called: it is fixed at the call, no later binding,      *)
(* rebinding or removal of a name changes it, and the run computes that    *)
(* set; whereas every configuration key read before shutdown, present in   *)
(* cfg.paths, is among the data paths with its configured value.           *)
(***************************************************************************)
\* the sets a registered call can compute, one per state of <root>/editable
InventoryOf(req) ==
    {InterestingPackages(Deref(req.globals_), req.packages, e) : e \in EditableDirs}

PendingInventories == [i \in 1..Len(atexit_) |-> InventoryOf(atexit_[i])]

RunningInventory == InventoryOf(fr.req)

\* the sets the namespace of now gives
NamespaceInventory(packages) ==
    {InterestingPackages(globals_, packages, e) : e \in EditableDirs}

C12_InventoryFromCallTimeNamespace ==
    /\ [][calls' # calls =>
            PendingInventories'[Len(atexit_')]
                = NamespaceInventory(atexit_'[Len(atexit_')].packages)]_vars
    /\ [][atexit_' = atexit_ => PendingInventories' = PendingInventories]_vars
    /\ [][runs' # runs => RunningInventory' = PendingInventories[Len(atexit_)]]_vars
    /\ [][fr.pc = "inventory" /\ ev'.kind = "inventory" =>
            ev'.combined \in RunningInventory]_vars
    /\ [][ev'.kind = "watermark" => ev'.packages = fr.combined]_vars
    /\ [](ev.kind = "paths" =>
            \A k \in used_keys :
                k \in DOMAIN ev.external_paths /\ ev.external_paths[k] = paths[k])

\* numpy was imported after the call and a key was read: the set has no numpy
C12_Witness ==
    /\ ev.kind = "inventory"
    /\ "m" \in DOMAIN globals_ /\ globals_["m"] = ModNumpy
    /\ "m" \notin DOMAIN fr.req.globals_.items
    /\ PyStr(<<"numpy">>) \notin ev.combined
    /\ used_keys = {"raw"}

====
